---- MODULE Spec2Model ----
(***************************************************************************)
(* A model of src/host.go: one Host (NewHost), its store directory on the  *)
(* local file system, the machine its driver manages, and the operations   *)
(* Create, SaveConfig, LoadHost/LoadConfig, Remove/removeStorePath,        *)
(* GenerateCertificates and ConfigureAuth (Spec).                          *)
(*                                                                         *)
(* Four more specifications over the same variables: SpecLifecycle (Create,*)
(* Start, Stop, Upgrade, Remove, SaveConfig, LoadHost on one host),        *)
(* SpecHosts (two hosts side by side), SpecValidate (ValidateHostName) and *)
(* SpecWait (waitForDocker).  Each says what the variables hold under it.  *)
(*                                                                         *)
(* Every fallible call of the code (a driver call, a remote command, a     *)
(* file-system call) gets its outcome from a small set with \E.  An error  *)
(* value is a string naming the call that produced it; Nil is "no error". *)
(* All data values are strings or records so that TLC can compare them.    *)
(***************************************************************************)
EXTENDS Naturals, Sequences, FiniteSets

VARIABLES
    host,     \* the Host struct built by NewHost (host.go 23-33)
    fs,       \* local file system: the store path, its files, the supplied CA files
    infra,    \* the machine behind the driver: VM, docker daemon, remote files
    pc,       \* position inside ConfigureAuth, "idle" between operations
    locals,   \* ConfigureAuth's local variables (ip, caCert, serverCert, serverKey)
    last,     \* the operation in progress or last returned: its calls, error and result
    genLog    \* one entry per GenerateCertificates run: the CA decision it took

vars == <<host, fs, infra, pc, locals, last, genLog>>

\* How many times GenerateCertificates may run in one behaviour.
MaxRuns == 2

Nil == "nil"

----------------------------------------------------------------------------
(* Values *)

\* A path that was not supplied (NewHost called with "").
NoPath == ""

HostName == "node1"
StorePath == "/store/node1"
SuppliedCaCert == "/ext/ca.pem"
SuppliedKey == "/ext/key.pem"

\* JSON numbers are written "#n" so that every JSON value is a TLA+ string.
NumVals == {"#0", "#7", "#1024"}

IsString(v) == v \notin NumVals

\* Driver kinds the registry knows (drivers.NewDriver) and one it does not.
RegisteredDrivers == {"virtualbox", "digitalocean"}

\* The exported (JSON-visible) fields of each concrete driver struct.
FieldsOf(kind) ==
    IF kind = "virtualbox" THEN {"CaCertPath", "PrivateKeyPath", "Memory"}
    ELSE IF kind = "digitalocean" THEN {"CaCertPath", "PrivateKeyPath", "DropletID"}
    ELSE {}

NumericFields == {"Memory", "DropletID"}

ZeroOf(f) == IF f \in NumericFields THEN "#0" ELSE ""

FieldTypeOk(f, v) == IF f \in NumericFields THEN v \in NumVals ELSE IsString(v)

\* The nil drivers.Driver interface value.
NilDriver == [kind |-> "nil", fields |-> <<>>]

\* drivers.NewDriver: a driver object of the named kind, or UnknownDriver.
\* Construction touches neither the disk nor the machine.
NewDriver(kind, name, storePath, caCert, privateKey) ==
    IF kind \in RegisteredDrivers
    THEN [err |-> Nil,
          driver |-> [kind |-> kind,
                      fields |-> [f \in FieldsOf(kind) |->
                                    IF f = "CaCertPath" THEN caCert
                                    ELSE IF f = "PrivateKeyPath" THEN privateKey
                                    ELSE ZeroOf(f)]]]
    ELSE [err |-> "UnknownDriver", driver |-> NilDriver]

\* &Host{Name: name, storePath: storePath}: every other field is its zero value.
ZeroHost(name, storePath) ==
    [Name |-> name, DriverName |-> "", Driver |-> NilDriver, CaCertPath |-> "",
     ServerCertPath |-> "", ServerKeyPath |-> "", PrivateKeyPath |-> "",
     ClientCertPath |-> "", storePath |-> storePath]

\* NewHost, for a registered driver kind.
NewHost(name, driverName, storePath, caCert, privateKey) ==
    [ZeroHost(name, storePath) EXCEPT
        !.DriverName = driverName,
        !.Driver = NewDriver(driverName, name, storePath, caCert, privateKey).driver,
        !.CaCertPath = caCert,
        !.PrivateKeyPath = privateKey]

----------------------------------------------------------------------------
(* config.json: encoding/json on the Host struct *)

\* The Host fields json.Marshal writes: Name is tagged json:"-", storePath is
\* unexported, Driver is written as a nested object.
PersistedKeys == {"DriverName", "CaCertPath", "ServerCertPath", "ServerKeyPath",
                  "PrivateKeyPath", "ClientCertPath"}

\* json.Marshal(h): a document is well-formed JSON or not; a well-formed one
\* has top-level string/number members and a "Driver" object.
MarshalHost(h) ==
    [type |-> "json", wellformed |-> TRUE,
     top |-> [k \in PersistedKeys |-> h[k]],
     driver |-> h.Driver.fields]

\* json.Unmarshal(data, &config) with config a hostConfig{DriverName string}.
UnmarshalHostConfig(doc) ==
    IF ~doc.wellformed THEN [err |-> "json.Unmarshal", DriverName |-> ""]
    ELSE IF "DriverName" \notin DOMAIN doc.top THEN [err |-> Nil, DriverName |-> ""]
    ELSE IF ~IsString(doc.top["DriverName"])
         THEN [err |-> "json.Unmarshal", DriverName |-> ""]
    ELSE [err |-> Nil, DriverName |-> doc.top["DriverName"]]

\* json.Unmarshal(data, &h) into a Host whose Driver is already the concrete
\* driver: a member with a matching name and type is stored, an unknown member
\* is ignored, a missing member leaves the field as it is, and a member of the
\* wrong type is skipped and makes the call return an error.
UnmarshalHost(doc, h) ==
    LET topOk(k) == k \in DOMAIN doc.top /\ IsString(doc.top[k])
        drvOk(f) == f \in DOMAIN doc.driver /\ FieldTypeOk(f, doc.driver[f])
        topBad == \E k \in PersistedKeys :
                     k \in DOMAIN doc.top /\ ~IsString(doc.top[k])
        drvBad == \E f \in DOMAIN h.Driver.fields :
                     f \in DOMAIN doc.driver /\ ~FieldTypeOk(f, doc.driver[f])
        drv == [h.Driver EXCEPT
                  !.fields = [f \in DOMAIN h.Driver.fields |->
                                IF drvOk(f) THEN doc.driver[f] ELSE h.Driver.fields[f]]]
        filled == [k \in DOMAIN h |->
                     IF k = "Driver" THEN drv
                     ELSE IF k \in PersistedKeys /\ topOk(k) THEN doc.top[k]
                     ELSE h[k]]
    IN  IF ~doc.wellformed THEN [err |-> "json.Unmarshal", host |-> h]
        ELSE [err |-> IF topBad \/ drvBad THEN "json.Unmarshal" ELSE Nil,
              host |-> filled]

----------------------------------------------------------------------------
(* The local file system *)

StoreFiles == {"config.json", "ca.pem", "private.pem", "server.pem",
               "server-key.pem", "client.pem", "client-key.pem"}

SuppliedPaths == {SuppliedCaCert, SuppliedKey}

NoFile == [type |-> "nofile"]

EmptyDir == [f \in StoreFiles |-> NoFile]

\* os.Stat(path) does not report IsNotExist: the path is one of the supplied
\* CA files and that file is there.  The empty path never exists.
Exists(f, path) == path \in SuppliedPaths /\ f.ext[path]

\* filepath.Join(dir, name).
Join(dir, name) == dir \o "/" \o name

\* A file of the store can be written only when the store path is a directory.
WriteStoreFile(f, name, content) == [f EXCEPT !.files[name] = content]

\* ioutil.ReadFile of a store file: the content, or NoFile when it cannot be read.
ReadStoreFile(f, name, ioOk) ==
    IF f.kind = "dir" /\ ioOk THEN f.files[name] ELSE NoFile

----------------------------------------------------------------------------
(* LoadHost / LoadConfig (host.go 67-77, 305-329) *)

\* A LoadConfig without the second pass: the driver is constructed and the
\* document is not decoded into the host.
LoadConfigFirstPassOnly(h, f, ioOk) ==
    LET data == ReadStoreFile(f, "config.json", ioOk)
        config == UnmarshalHostConfig(data)
        made == NewDriver(config.DriverName, h.Name, h.storePath,
                          h.CaCertPath, h.PrivateKeyPath)
    IN  IF data = NoFile THEN [err |-> "ReadFile", host |-> h]
        ELSE IF config.err # Nil THEN [err |-> config.err, host |-> h]
        ELSE IF made.err # Nil THEN [err |-> made.err, host |-> h]
        ELSE [err |-> Nil, host |-> [h EXCEPT !.Driver = made.driver]]

\* LoadConfig on host h: read config.json, first pass for the driver name,
\* construct the driver, second pass into the host.
LoadConfig(h, f, ioOk) ==
    LET data == ReadStoreFile(f, "config.json", ioOk)
        config == UnmarshalHostConfig(data)
        made == NewDriver(config.DriverName, h.Name, h.storePath,
                          h.CaCertPath, h.PrivateKeyPath)
        second == UnmarshalHost(data, [h EXCEPT !.Driver = made.driver])
    IN  IF data = NoFile THEN [err |-> "ReadFile", host |-> h]
        ELSE IF config.err # Nil THEN [err |-> config.err, host |-> h]
        ELSE IF made.err # Nil THEN [err |-> made.err, host |-> h]
        ELSE second

\* A LoadHost that returns the host it was filling together with the error.
LoadHostReturnsPartial(name, storePath, f, ioOk) ==
    LET r == LoadConfig(ZeroHost(name, storePath), f, ioOk)
    IN  IF f.kind = "absent" THEN [err |-> "HostDoesNotExist", ret |-> <<>>]
        ELSE [err |-> r.err, ret |-> <<r.host>>]

\* A LoadHost without the os.Stat of lines 68-70.
LoadHostSkipsStat(name, storePath, f, ioOk) ==
    LET r == LoadConfig(ZeroHost(name, storePath), f, ioOk)
    IN  IF r.err # Nil THEN [err |-> r.err, ret |-> <<>>]
        ELSE [err |-> Nil, ret |-> <<r.host>>]

\* LoadHost: <<host>> on success, <<>> (nil) with the error otherwise.
LoadHost(name, storePath, f, ioOk) ==
    LET r == LoadConfig(ZeroHost(name, storePath), f, ioOk)
    IN  IF f.kind = "absent" THEN [err |-> "HostDoesNotExist", ret |-> <<>>]
        ELSE IF r.err # Nil THEN [err |-> r.err, ret |-> <<>>]
        ELSE [err |-> Nil, ret |-> <<r.host>>]

----------------------------------------------------------------------------
(* The machine behind the driver *)

RemoteFiles == {"ca.pem", "server-key.pem", "server.pem", "profile",
                "/etc/default/docker"}

\* No machine: nothing provisioned, no daemon, no remote files.
NoMachine ==
    [machine |-> "none", docker |-> FALSE, configDir |-> FALSE,
     remote |-> [r \in RemoteFiles |-> <<>>]]

\* A freshly provisioned machine: running, with its daemon up.
FreshMachine == [NoMachine EXCEPT !.machine = "running", !.docker = TRUE]

\* What Driver.Create records in the driver object (its kind-specific field).
Provisioned(driver) ==
    [driver EXCEPT !.fields = [f \in DOMAIN driver.fields |->
        IF f = "Memory" THEN "#1024"
        ELSE IF f = "DropletID" THEN "#7"
        ELSE driver.fields[f]]]

----------------------------------------------------------------------------
(* Operation records *)

\* err is the error the operation returned (Nil: none), errors are the errors
\* its calls reported, in order, and calls are the calls it made.  ret is what
\* LoadHost returned, <<>> (nil) or <<host>>; <<>> for the others.
Returned(op, force, err, errors, calls) ==
    [op |-> op, force |-> force, err |-> err, errors |-> errors, calls |-> calls,
     ret |-> <<>>]

\* The errors a call reported: none, or the one.
Reported(e) == IF e = Nil THEN <<>> ELSE <<e>>

NoLocals == [ip |-> "", caCert |-> NoFile, serverCert |-> NoFile, serverKey |-> NoFile]

----------------------------------------------------------------------------
(* GenerateCertificates (host.go 86-140) *)

SelfSignedCert(n) == [type |-> "cacert", origin |-> "selfsigned", serial |-> n]
SelfSignedKey(n) == [type |-> "cakey", origin |-> "selfsigned", serial |-> n]
CopyOf(path) == [type |-> "copy", from |-> path]
IssuedCert(role, ip, n) == [type |-> "cert", role |-> role, ip |-> ip, serial |-> n]
IssuedKey(role, n) == [type |-> "key", role |-> role, serial |-> n]

GenCalls == {"GenerateCACert", "CopyFile(CaCertPath)", "CopyFile(PrivateKeyPath)",
             "GenerateCert(server)", "GenerateCert(client)"}

\* The test of line 109 with its branches swapped.
UseSelfSignedCASwapped(caPathExists, privateKeyExists) ==
    caPathExists \/ privateKeyExists

\* The test of line 109: generate a self-signed CA, or copy the supplied one.
UseSelfSignedCA(caPathExists, privateKeyExists) ==
    ~caPathExists /\ ~privateKeyExists

\* One run, the n-th, for server IP ip.  fail names the call that reports an
\* I/O error if the run gets to it ("none": no such error).  A call that
\* writes under the store path also fails when that is no directory, and
\* CopyFile fails when its source does not exist.
GenerateCertificates(h, f, ip, n, fail) ==
    LET caPathExists == Exists(f, h.CaCertPath)
        privateKeyExists == Exists(f, h.PrivateKeyPath)
        ok(call) == f.kind = "dir" /\ fail # call
        gen == [f EXCEPT !.files["ca.pem"] = SelfSignedCert(n),
                         !.files["private.pem"] = SelfSignedKey(n)]
        copy1 == [f EXCEPT !.files["ca.pem"] = CopyOf(h.CaCertPath)]
        copy2 == [copy1 EXCEPT !.files["private.pem"] = CopyOf(h.PrivateKeyPath)]
        ca == IF UseSelfSignedCA(caPathExists, privateKeyExists)
              THEN IF ok("GenerateCACert")
                   THEN [err |-> Nil, fs |-> gen, calls |-> <<"GenerateCACert">>]
                   ELSE [err |-> "GenerateCACert", fs |-> f,
                         calls |-> <<"GenerateCACert">>]
              ELSE IF ~(caPathExists /\ ok("CopyFile(CaCertPath)"))
                   THEN [err |-> "CopyFile(CaCertPath)", fs |-> f,
                         calls |-> <<"CopyFile(CaCertPath)">>]
              ELSE IF ~(privateKeyExists /\ ok("CopyFile(PrivateKeyPath)"))
                   THEN [err |-> "CopyFile(PrivateKeyPath)", fs |-> copy1,
                         calls |-> <<"CopyFile(CaCertPath)", "CopyFile(PrivateKeyPath)">>]
              ELSE [err |-> Nil, fs |-> copy2,
                    calls |-> <<"CopyFile(CaCertPath)", "CopyFile(PrivateKeyPath)">>]
        server == [ca.fs EXCEPT !.files["server.pem"] = IssuedCert("server", ip, n),
                                !.files["server-key.pem"] = IssuedKey("server", n)]
        client == [server EXCEPT !.files["client.pem"] = IssuedCert("client", "", n),
                                 !.files["client-key.pem"] = IssuedKey("client", n)]
    IN  IF ca.err # Nil THEN ca
        ELSE IF ~ok("GenerateCert(server)")
             THEN [err |-> "GenerateCert(server)", fs |-> ca.fs,
                   calls |-> Append(ca.calls, "GenerateCert(server)")]
        ELSE IF ~ok("GenerateCert(client)")
             THEN [err |-> "GenerateCert(client)", fs |-> server,
                   calls |-> ca.calls \o <<"GenerateCert(server)", "GenerateCert(client)">>]
        ELSE [err |-> Nil, fs |-> client,
              calls |-> ca.calls \o <<"GenerateCert(server)", "GenerateCert(client)">>]

----------------------------------------------------------------------------
(* SaveConfig, Create (host.go 331-340, 257-267) *)

\* SaveConfig: marshal the host and overwrite config.json.  ioutil.WriteFile
\* creates no directory: it fails unless the store path is one.
SaveConfig(h, f, ioOk) ==
    IF f.kind = "dir" /\ ioOk
    THEN [err |-> Nil, fs |-> WriteStoreFile(f, "config.json", MarshalHost(h))]
    ELSE [err |-> "WriteFile", fs |-> f]

\* A Create that saves the configuration whatever the driver reported.
CreateSavesAlways(drvErr) == TRUE

\* Lines 258-260: Create goes on to SaveConfig only without a driver error.
CreateSaves(drvErr) == drvErr = Nil

Create ==
    \E drvOk \in BOOLEAN, ioOk \in BOOLEAN :
        LET drvErr == IF drvOk THEN Nil ELSE "Driver.Create"
            h1 == IF drvOk THEN [host EXCEPT !.Driver = Provisioned(@)] ELSE host
            saved == SaveConfig(h1, fs, ioOk)
        IN  /\ pc = "idle"
            /\ host' = h1
            /\ infra' = IF drvOk THEN FreshMachine ELSE infra
            /\ IF CreateSaves(drvErr)
               THEN /\ fs' = saved.fs
                    /\ last' = Returned("Create", FALSE,
                                        IF drvErr # Nil THEN drvErr ELSE saved.err,
                                        Reported(drvErr) \o Reported(saved.err),
                                        <<"Driver.Create", "SaveConfig">>)
               ELSE /\ fs' = fs
                    /\ last' = Returned("Create", FALSE, drvErr, Reported(drvErr),
                                        <<"Driver.Create">>)
            /\ UNCHANGED <<pc, locals, genLog>>

SaveConfigOp ==
    \E ioOk \in BOOLEAN :
        LET saved == SaveConfig(host, fs, ioOk)
        IN  /\ pc = "idle"
            /\ fs' = saved.fs
            /\ last' = Returned("SaveConfig", FALSE, saved.err, Reported(saved.err),
                                <<"WriteFile">>)
            /\ UNCHANGED <<host, infra, pc, locals, genLog>>

LoadHostOp ==
    \E ioOk \in BOOLEAN :
        LET r == LoadHost(HostName, StorePath, fs, ioOk)
        IN  /\ pc = "idle"
            /\ last' = [Returned("LoadHost", FALSE, r.err, Reported(r.err),
                                 <<"LoadHost">>)
                           EXCEPT !.ret = r.ret]
            /\ UNCHANGED <<host, fs, infra, pc, locals, genLog>>

----------------------------------------------------------------------------
(* Remove, removeStorePath (host.go 281-299) *)

\* What the file system can answer to removeStorePath in state f: os.Stat of
\* a missing path fails; of an existing one it succeeds or fails (say, no
\* permission); os.RemoveAll of a directory succeeds, or fails having deleted
\* nothing, or fails having deleted the files but not the directory.
RemoveOutcomes(f) ==
    IF f.kind = "absent" THEN {"stat fails"}
    ELSE IF f.kind = "file" THEN {"stat fails", "ok"}
    ELSE {"stat fails", "ok", "fail, nothing deleted", "fail, files deleted"}

\* A removeStorePath that reports success when the recursive delete failed.
removeStorePathLenient(f, out) ==
    IF out = "stat fails"
    THEN [err |-> "Stat", errors |-> <<"Stat">>, fs |-> f, calls |-> <<"Stat">>]
    ELSE IF f.kind # "dir"
    THEN [err |-> "NotADirectory", errors |-> <<"NotADirectory">>, fs |-> f,
          calls |-> <<"Stat">>]
    ELSE [err |-> Nil, errors |-> IF out = "ok" THEN <<>> ELSE <<"RemoveAll">>,
          fs |-> IF out = "ok" THEN [f EXCEPT !.kind = "absent", !.files = EmptyDir]
                 ELSE f,
          calls |-> <<"Stat", "RemoveAll">>]

\* removeStorePath: stat, refuse what is not a directory, delete recursively.
removeStorePath(f, out) ==
    IF out = "stat fails"
    THEN [err |-> "Stat", errors |-> <<"Stat">>, fs |-> f, calls |-> <<"Stat">>]
    ELSE IF f.kind # "dir"
    THEN [err |-> "NotADirectory", errors |-> <<"NotADirectory">>, fs |-> f,
          calls |-> <<"Stat">>]
    ELSE IF out = "ok"
    THEN [err |-> Nil, errors |-> <<>>,
          fs |-> [f EXCEPT !.kind = "absent", !.files = EmptyDir],
          calls |-> <<"Stat", "RemoveAll">>]
    ELSE [err |-> "RemoveAll", errors |-> <<"RemoveAll">>,
          fs |-> IF out = "fail, files deleted" THEN [f EXCEPT !.files = EmptyDir] ELSE f,
          calls |-> <<"Stat", "RemoveAll">>]

\* A Remove that deletes the store whatever the driver reported.
RemoveProceedsAlways(drvErr, force) == TRUE

\* A Remove that returns every driver error, forced or not.
RemoveProceedsUnforced(drvErr, force) == drvErr = Nil

\* Lines 282-286: after the driver's Remove, go on to removeStorePath?
RemoveProceeds(drvErr, force) == drvErr = Nil \/ force

Remove(force) ==
    \E drvOk \in BOOLEAN, out \in RemoveOutcomes(fs) :
        LET drvErr == IF drvOk THEN Nil ELSE "Driver.Remove"
            r == removeStorePath(fs, out)
        IN  /\ pc = "idle"
            /\ infra' = IF drvOk THEN NoMachine ELSE infra
            /\ IF RemoveProceeds(drvErr, force)
               THEN /\ fs' = r.fs
                    /\ last' = Returned("Remove", force, r.err,
                                        Reported(drvErr) \o r.errors,
                                        <<"Driver.Remove">> \o r.calls)
               ELSE /\ fs' = fs
                    /\ last' = Returned("Remove", force, drvErr, Reported(drvErr),
                                        <<"Driver.Remove">>)
            /\ UNCHANGED <<host, pc, locals, genLog>>

----------------------------------------------------------------------------
(* ConfigureAuth (host.go 142-255): one action per call the code checks *)

\* The calls with the server certificate uploaded before the server key.
AuthCallsCertBeforeKey ==
    <<"GetIP", "GenerateCertificates", "StopDocker", "mkdir",
      "ReadFile(ca.pem)", "ReadFile(server.pem)", "ReadFile(server-key.pem)",
      "tee(ca.pem)", "tee(server.pem)", "tee(server-key.pem)",
      "tee(daemon config)", "StartDocker">>

\* The calls in the order of the code.  A remote command is GetSSHCommand
\* followed by cmd.Run; either one failing returns the error.
AuthCalls ==
    <<"GetIP", "GenerateCertificates", "StopDocker", "mkdir",
      "ReadFile(ca.pem)", "ReadFile(server.pem)", "ReadFile(server-key.pem)",
      "tee(ca.pem)", "tee(server-key.pem)", "tee(server.pem)",
      "tee(daemon config)", "StartDocker">>

IndexOf(call) == CHOOSE i \in 1..Len(AuthCalls) : AuthCalls[i] = call

\* After a call that succeeded: the next call, or return nil after the last.
AfterSuccess(call) ==
    IF IndexOf(call) = Len(AuthCalls) THEN "idle" ELSE AuthCalls[IndexOf(call) + 1]

\* A ConfigureAuth that logs a failed call and carries on.
AfterFailureCarriesOn(call) == AfterSuccess(call)

\* After a call that failed: "return err".
AfterFailure(call) == "idle"

\* The switch of lines 220-241 on d.DriverName(): where the daemon
\* configuration goes and what it says.  The text is kept as the sequence of
\* its tokens; the certificate paths in it are those under the machine's
\* docker configuration directory, and "profile" is the file of that name in
\* that directory.
LocalHypervisors == {"virtualbox", "vmwarefusion", "vmwarevsphere"}

DaemonOptsCfg(driverName) ==
    IF driverName \in LocalHypervisors THEN "profile" ELSE "/etc/default/docker"

\* The text of lines 231-240, as its tokens in order.
DaemonOptsText ==
    <<"export DOCKER_OPTS=", "--tlsverify", "--tlsverify", "--tlscacert=ca.pem",
      "--tlskey=server-key.pem", "--tlscert=server.pem",
      "--host=unix:///var/run/docker.sock", "--host=tcp://0.0.0.0:2376">>

\* The text of lines 222-228, as its tokens in order.
ProfileText ==
    <<"EXTRA_ARGS=", "--host=unix:///var/run/docker.sock", "--host=tcp://0.0.0.0:2376",
      "CACERT=ca.pem", "SERVERCERT=server.pem", "SERVERKEY=server-key.pem",
      "DOCKER_TLS=auto">>

\* A configuration composed without the switch: the default case for all.
DaemonCfgGenericOnly(driverName) == [type |-> "daemoncfg", text |-> DaemonOptsText]

DaemonCfg(driverName) ==
    IF driverName \in LocalHypervisors
    THEN [type |-> "daemoncfg", text |-> ProfileText]
    ELSE [type |-> "daemoncfg", text |-> DaemonOptsText]

\* The bookkeeping of one checked call that reported e (Nil: success): the
\* call is logged, the first error is the one returned, and control moves
\* on.  loc are the local variables after the call; they are gone once
\* ConfigureAuth has returned.
Checked(call, e, loc) ==
    /\ pc' = IF e = Nil THEN AfterSuccess(call) ELSE AfterFailure(call)
    /\ last' = [last EXCEPT !.calls = Append(@, call),
                            !.errors = @ \o Reported(e),
                            !.err = IF @ # Nil THEN @ ELSE e]
    /\ locals' = IF pc' = "idle" THEN NoLocals ELSE loc

Outcome(call, ok) == IF ok THEN Nil ELSE call

\* A call to the driver or to the machine can succeed only if there is a machine.
Reachable == infra.machine # "none"

\* Lines 143-148.  ConfigureAuth starts here.
AuthGetIP ==
    \E ok \in BOOLEAN :
        /\ pc = "idle"
        /\ Len(genLog) < MaxRuns
        /\ ok => Reachable
        /\ pc' = IF ok THEN AfterSuccess("GetIP") ELSE AfterFailure("GetIP")
        /\ last' = Returned("ConfigureAuth", FALSE, Outcome("GetIP", ok),
                            Reported(Outcome("GetIP", ok)), <<"GetIP">>)
        /\ locals' = IF pc' = "idle" THEN NoLocals ELSE [NoLocals EXCEPT !.ip = "10.0.0.5"]
        /\ UNCHANGED <<host, fs, infra, genLog>>

\* Lines 150-153.
AuthGenerateCertificates ==
    \E fail \in GenCalls \cup {"none"} :
        LET r == GenerateCertificates(host, fs, locals.ip, Len(genLog) + 1, fail)
        IN  /\ pc = "GenerateCertificates"
            /\ fs' = r.fs
            /\ genLog' = Append(genLog, r.calls[1])
            /\ Checked("GenerateCertificates", r.err, locals)
            /\ UNCHANGED <<host, infra>>

\* Lines 159-161.
AuthStopDocker ==
    \E ok \in BOOLEAN :
        /\ pc = "StopDocker"
        /\ ok => Reachable
        /\ infra' = IF ok THEN [infra EXCEPT !.docker = FALSE] ELSE infra
        /\ Checked("StopDocker", Outcome("StopDocker", ok), locals)
        /\ UNCHANGED <<host, fs, genLog>>

\* Lines 163-169: sudo mkdir -p <docker config dir>.
AuthMkdir ==
    \E ok \in BOOLEAN :
        /\ pc = "mkdir"
        /\ ok => Reachable
        /\ infra' = IF ok THEN [infra EXCEPT !.configDir = TRUE] ELSE infra
        /\ Checked("mkdir", Outcome("mkdir", ok), locals)
        /\ UNCHANGED <<host, fs, genLog>>

\* Lines 172-188: the three ioutil.ReadFile calls.
AuthReadFile ==
    \E ioOk \in BOOLEAN :
        \E call \in {"ReadFile(ca.pem)", "ReadFile(server.pem)", "ReadFile(server-key.pem)"} :
            LET name == IF call = "ReadFile(ca.pem)" THEN "ca.pem"
                        ELSE IF call = "ReadFile(server.pem)" THEN "server.pem"
                        ELSE "server-key.pem"
                data == ReadStoreFile(fs, name, ioOk)
            IN  /\ pc = call
                /\ Checked(call, Outcome(call, data # NoFile),
                           IF name = "ca.pem" THEN [locals EXCEPT !.caCert = data]
                           ELSE IF name = "server.pem" THEN [locals EXCEPT !.serverCert = data]
                           ELSE [locals EXCEPT !.serverKey = data])
                /\ UNCHANGED <<host, fs, infra, genLog>>

\* Lines 190-212 and 242-248: echo "<content>" | sudo tee -a <remote path>.
AuthTee ==
    \E ok \in BOOLEAN :
        \E call \in {"tee(ca.pem)", "tee(server-key.pem)", "tee(server.pem)",
                     "tee(daemon config)"} :
            LET target == IF call = "tee(ca.pem)" THEN "ca.pem"
                          ELSE IF call = "tee(server-key.pem)" THEN "server-key.pem"
                          ELSE IF call = "tee(server.pem)" THEN "server.pem"
                          ELSE DaemonOptsCfg(host.Driver.kind)
                content == IF call = "tee(ca.pem)" THEN locals.caCert
                           ELSE IF call = "tee(server-key.pem)" THEN locals.serverKey
                           ELSE IF call = "tee(server.pem)" THEN locals.serverCert
                           ELSE DaemonCfg(host.Driver.kind)
            IN  /\ pc = call
                /\ ok => Reachable
                /\ infra' = IF ok THEN [infra EXCEPT !.remote[target] = Append(@, content)]
                            ELSE infra
                /\ Checked(call, Outcome(call, ok), locals)
                /\ UNCHANGED <<host, fs, genLog>>

\* Lines 250-254.
AuthStartDocker ==
    \E ok \in BOOLEAN :
        /\ pc = "StartDocker"
        /\ ok => Reachable
        /\ infra' = IF ok THEN [infra EXCEPT !.docker = TRUE] ELSE infra
        /\ Checked("StartDocker", Outcome("StartDocker", ok), locals)
        /\ UNCHANGED <<host, fs, genLog>>

----------------------------------------------------------------------------
(* Initial states and the specification *)

Doc(wellformed, top, driver) ==
    [type |-> "json", wellformed |-> wellformed, top |-> top, driver |-> driver]

\* config.json files a store directory may hold before this process touches
\* it: not JSON at all, an unregistered driver kind, a member the second pass cannot decode, and a document whose
\* driver members are those of another kind.
ForeignDocs ==
    { Doc(FALSE, <<>>, <<>>),
      Doc(TRUE, [DriverName |-> "nosuchdriver"], <<>>),
      Doc(TRUE, [DriverName |-> "virtualbox", CaCertPath |-> "#7"],
                [Memory |-> "#1024"]),
      Doc(TRUE, [DriverName |-> "virtualbox", CaCertPath |-> "/old/ca.pem"],
                [DropletID |-> "#7"]) }

InitialStores ==
    { [kind |-> k, files |-> EmptyDir] : k \in {"absent", "dir", "file"} }
    \cup { [kind |-> "dir", files |-> [EmptyDir EXCEPT !["config.json"] = d]] :
             d \in ForeignDocs }

Init ==
    /\ \E driverName \in RegisteredDrivers,
          caCert \in {NoPath, SuppliedCaCert},
          privateKey \in {NoPath, SuppliedKey} :
           host = NewHost(HostName, driverName, StorePath, caCert, privateKey)
    /\ \E store \in InitialStores, ext \in [SuppliedPaths -> BOOLEAN] :
           \* a path that was not supplied names no file
           /\ \A p \in SuppliedPaths :
                  ext[p] => p \in {host.CaCertPath, host.PrivateKeyPath}
           /\ fs = [kind |-> store.kind, files |-> store.files, ext |-> ext]
    /\ infra = NoMachine
    /\ pc = "idle"
    /\ locals = NoLocals
    /\ last = Returned("NewHost", FALSE, Nil, <<>>, <<>>)
    /\ genLog = <<>>

Next ==
    \/ Create
    \/ SaveConfigOp
    \/ LoadHostOp
    \/ Remove(FALSE)
    \/ Remove(TRUE)
    \/ AuthGetIP
    \/ AuthGenerateCertificates
    \/ AuthStopDocker
    \/ AuthMkdir
    \/ AuthReadFile
    \/ AuthTee
    \/ AuthStartDocker

Spec == Init /\ [][Next]_vars

----------------------------------------------------------------------------
(* Start, Stop, Upgrade (host.go 269-279) and the lifecycle specification *)

\* What a driver operation that succeeded does to the machine: Start brings
\* the machine and its daemon up, Stop takes them down, Upgrade changes
\* neither.
MachineAfter(op, m) ==
    IF op = "Start" THEN [m EXCEPT !.machine = "running", !.docker = TRUE]
    ELSE IF op = "Stop" THEN [m EXCEPT !.machine = "stopped", !.docker = FALSE]
    ELSE m

\* A delegation that logs the driver's error and reports success.
DelegateSwallows(op, e) ==
    Returned(op, FALSE, Nil, Reported(e), <<"Driver." \o op>>)

\* return h.Driver.<op>(): one call, its result returned as it is.
Delegate(op, e) ==
    Returned(op, FALSE, e, Reported(e), <<"Driver." \o op>>)

\* The step of Start, Stop or Upgrade: nothing but the driver call.
Delegated(op) ==
    \E ok \in BOOLEAN :
        /\ pc = "idle"
        /\ ok => Reachable
        /\ infra' = IF ok THEN MachineAfter(op, infra) ELSE infra
        /\ last' = Delegate(op, Outcome("Driver." \o op, ok))
        /\ UNCHANGED <<host, fs, pc, locals, genLog>>

Start == Delegated("Start")

Stop == Delegated("Stop")

Upgrade == Delegated("Upgrade")

\* The lifecycle operations of one host, without the certificate bootstrap.
NextLifecycle ==
    \/ Create
    \/ Start
    \/ Stop
    \/ Upgrade
    \/ Remove(FALSE)
    \/ Remove(TRUE)
    \/ SaveConfigOp
    \/ LoadHostOp

SpecLifecycle == Init /\ [][NextLifecycle]_vars

----------------------------------------------------------------------------
(* Two hosts side by side.  Under SpecHosts the variables hold one value per *)
(* host name (host[n], genLog[n]); fs is the one file system, with both     *)
(* store paths in it; locals[n] is what host n's store is in the run of n's  *)
(* operations alone; last names the operation and the host of the last step; *)
(* pc stays "idle" (operations are atomic here) and the machines (infra) are *)
(* left out: each driver call just succeeds or fails.                        *)

\* How many times GenerateCertificates may run on one host under SpecHosts.
MaxHostRuns == 2

\* The calls of GenerateCertificates that may report an I/O error here.
HostsGenFailures == {"none", "CopyFile(PrivateKeyPath)", "GenerateCert(client)"}

Names == {"node1", "node2"}

StorePathOf(name) == Join("/store", name)

IPOf(name) == IF name = "node1" THEN "10.0.0.5" ELSE "10.0.0.6"

\* Methods that build their paths from one process-wide store path.
StoreOfShared(h) == StorePath

\* The directory every method of h builds its paths from: h.storePath
\* (filepath.Join(h.storePath, ...), os.Stat and os.RemoveAll of h.storePath).
StoreOf(h) == h.storePath

\* The file system as the methods of h see it, and a store they leave put back.
View(F, h) ==
    [kind |-> F.stores[StoreOf(h)].kind, files |-> F.stores[StoreOf(h)].files,
     ext |-> F.ext]

Put(F, h, f) == [F EXCEPT !.stores[StoreOf(h)] = [kind |-> f.kind, files |-> f.files]]

\* Host n's store in the run of n alone, as a file system.
Alone(n) == [kind |-> locals[n].kind, files |-> locals[n].files, ext |-> fs.ext]

Kept(f) == [kind |-> f.kind, files |-> f.files]

\* Create as a function of the host and the file system it sees (lines 257-267).
CreateOn(h, f, drvOk, ioOk) ==
    LET drvErr == IF drvOk THEN Nil ELSE "Driver.Create"
        h1 == IF drvOk THEN [h EXCEPT !.Driver = Provisioned(@)] ELSE h
        saved == SaveConfig(h1, f, ioOk)
    IN  IF CreateSaves(drvErr)
        THEN [host |-> h1, fs |-> saved.fs, err |-> saved.err]
        ELSE [host |-> h1, fs |-> f, err |-> drvErr]

\* Remove as a function of the file system it sees (lines 281-288).
RemoveOn(f, force, drvOk, out) ==
    LET drvErr == IF drvOk THEN Nil ELSE "Driver.Remove"
        r == removeStorePath(f, out)
    IN  IF RemoveProceeds(drvErr, force)
        THEN [fs |-> r.fs, err |-> r.err]
        ELSE [fs |-> f, err |-> drvErr]

HostsCreate ==
    \E n \in Names, drvOk \in BOOLEAN, ioOk \in BOOLEAN :
        LET r == CreateOn(host[n], View(fs, host[n]), drvOk, ioOk)
            a == CreateOn(host[n], Alone(n), drvOk, ioOk)
        IN  /\ host' = [host EXCEPT ![n] = r.host]
            /\ fs' = Put(fs, host[n], r.fs)
            /\ locals' = [locals EXCEPT ![n] = Kept(a.fs)]
            /\ last' = [op |-> "Create", name |-> n]
            /\ UNCHANGED <<infra, pc, genLog>>

HostsSaveConfig ==
    \E n \in Names, ioOk \in BOOLEAN :
        LET r == SaveConfig(host[n], View(fs, host[n]), ioOk)
            a == SaveConfig(host[n], Alone(n), ioOk)
        IN  /\ fs' = Put(fs, host[n], r.fs)
            /\ locals' = [locals EXCEPT ![n] = Kept(a.fs)]
            /\ last' = [op |-> "SaveConfig", name |-> n]
            /\ UNCHANGED <<host, infra, pc, genLog>>

HostsGenerateCertificates ==
    \E n \in Names, fail \in HostsGenFailures :
        LET k == Len(genLog[n]) + 1
            r == GenerateCertificates(host[n], View(fs, host[n]), IPOf(n), k, fail)
            a == GenerateCertificates(host[n], Alone(n), IPOf(n), k, fail)
        IN  /\ Len(genLog[n]) < MaxHostRuns
            /\ fs' = Put(fs, host[n], r.fs)
            /\ locals' = [locals EXCEPT ![n] = Kept(a.fs)]
            /\ genLog' = [genLog EXCEPT ![n] = Append(@, r.calls[1])]
            /\ last' = [op |-> "GenerateCertificates", name |-> n]
            /\ UNCHANGED <<host, infra, pc>>

HostsRemove ==
    \E n \in Names, force \in BOOLEAN, drvOk \in BOOLEAN :
        \E out \in RemoveOutcomes(View(fs, host[n])) :
            LET r == RemoveOn(View(fs, host[n]), force, drvOk, out)
                a == RemoveOn(Alone(n), force, drvOk, out)
            IN  /\ fs' = Put(fs, host[n], r.fs)
                /\ locals' = [locals EXCEPT ![n] = Kept(a.fs)]
                /\ last' = [op |-> "Remove", name |-> n]
                /\ UNCHANGED <<host, infra, pc, genLog>>

\* node1 with no CA of its own, node2 with a supplied one; each store path a
\* directory, or not there yet.
InitHosts ==
    /\ host = [n \in Names |->
                 IF n = "node1"
                 THEN NewHost(n, "virtualbox", StorePathOf(n), NoPath, NoPath)
                 ELSE NewHost(n, "digitalocean", StorePathOf(n),
                              SuppliedCaCert, SuppliedKey)]
    /\ \E kinds \in [{StorePathOf(n) : n \in Names} -> {"dir", "absent"}],
          keyThere \in BOOLEAN :
           fs = [stores |-> [p \in DOMAIN kinds |-> [kind |-> kinds[p], files |-> EmptyDir]],
                 ext |-> [p \in SuppliedPaths |-> p = SuppliedCaCert \/ keyThere]]
    /\ locals = [n \in Names |-> fs.stores[StorePathOf(n)]]
    /\ infra = [n \in Names |-> NoMachine]
    /\ pc = "idle"
    /\ last = [op |-> "NewHost", name |-> ""]
    /\ genLog = [n \in Names |-> <<>>]

NextHosts ==
    \/ HostsCreate
    \/ HostsSaveConfig
    \/ HostsGenerateCertificates
    \/ HostsRemove

SpecHosts == InitHosts /\ [][NextHosts]_vars

----------------------------------------------------------------------------
(* ValidateHostName (host.go 18-21, 79-84).  A name is a sequence of code    *)
(* points, as the regexp package reads a string.  Under SpecValidate, last   *)
(* holds the name given and then what ValidateHostName returned for it; the  *)
(* other variables are not used.                                             *)

\* The longest name tried.
MaxNameLen == 3

Unused == <<>>

\* The code points names are made of: the ends of the ranges a-z, A-Z, 0-9
\* and their neighbours, '_', '-', ' ', '.', newline and a non-ASCII letter.
NameChars == {10, 32, 45, 46, 47, 48, 57, 58, 64, 65, 90, 91, 95, 96, 97, 122, 123, 233}

NamesTried == UNION { [1..n -> NameChars] : n \in 0..MaxNameLen }

\* `[a-zA-Z0-9_]`
validHostNameChars == (97..122) \cup (65..90) \cup (48..57) \cup {95}

\* The pattern without its anchors: some character of the class occurs.
MatchStringUnanchored(name) == \E i \in DOMAIN name : name[i] \in validHostNameChars

\* `^` class `+` `$` run over name from position i; seen: the class has
\* matched at least once.  `$` matches at the end of the text only.
RECURSIVE MatchFrom(_, _, _)
MatchFrom(name, i, seen) ==
    IF i > Len(name) THEN seen
    ELSE IF name[i] \in validHostNameChars THEN MatchFrom(name, i + 1, TRUE)
    ELSE FALSE

\* validHostNamePattern.MatchString(name)
MatchString(name) == MatchFrom(name, 1, FALSE)

\* ValidateHostName: the name comes back in both cases.
ValidateHostName(name) ==
    IF ~MatchString(name)
    THEN [ret |-> name, err |-> "InvalidName"]
    ELSE [ret |-> name, err |-> Nil]

InitValidate ==
    /\ \E name \in NamesTried : last = [op |-> "input", name |-> name]
    /\ host = Unused /\ fs = Unused /\ infra = Unused /\ locals = Unused
    /\ genLog = Unused
    /\ pc = "idle"

ValidateHostNameOp ==
    LET r == ValidateHostName(last.name)
    IN  /\ last.op = "input"
        /\ last' = [op |-> "ValidateHostName", name |-> last.name,
                    ret |-> r.ret, err |-> r.err]
        /\ UNCHANGED <<host, fs, infra, pc, locals, genLog>>

NextValidate == ValidateHostNameOp

SpecValidate == InitValidate /\ [][NextValidate]_vars

----------------------------------------------------------------------------
(* waitForDocker (host.go 39-50).  Under SpecWait, pc is the position in the *)
(* loop, infra the endpoint being dialled, and last the call: its address,   *)
(* the attempts that failed (counted up to MaxAttempts, then no further),    *)
(* the attempts that succeeded, the result of the latest attempt, and the    *)
(* error returned.  The other variables are not used.                        *)

\* Failed attempts are counted up to this number; the loop itself goes on.
MaxAttempts == 4

\* How many times the endpoint may go up or down.
MaxFlips == 3

Addrs == {"10.0.0.5:2376", "10.0.0.6:2376"}

\* A loop that leaves after its first attempt, failed or not.
AfterDialBreaks(err) == "Close"

\* Lines 42-47: a failed attempt sleeps and goes round again, a successful
\* one closes the connection and leaves the loop.
AfterDial(err) == IF err # Nil THEN "Sleep" ELSE "Close"

InitWait ==
    /\ pc = "DialTimeout"
    /\ \E up \in BOOLEAN : infra = [listening |-> up, flips |-> 0]
    /\ \E addr \in Addrs :
           last = [op |-> "waitForDocker", addr |-> addr, failed |-> 0,
                   succeeded |-> 0, dialed |-> "not yet", err |-> "not returned"]
    /\ host = Unused /\ fs = Unused /\ locals = Unused /\ genLog = Unused

\* The endpoint comes up or goes down.
EndpointFlips ==
    /\ infra.flips < MaxFlips
    /\ infra' = [listening |-> ~infra.listening, flips |-> infra.flips + 1]
    /\ UNCHANGED <<host, fs, pc, locals, last, genLog>>

\* Line 41: net.DialTimeout succeeds when the endpoint accepts connections.
WaitDialTimeout ==
    LET err == IF infra.listening THEN Nil ELSE "DialTimeout"
    IN  /\ pc = "DialTimeout"
        /\ pc' = AfterDial(err)
        /\ last' = IF err = Nil
                   THEN [last EXCEPT !.succeeded = @ + 1, !.dialed = "ok"]
                   ELSE [last EXCEPT !.failed = IF @ < MaxAttempts THEN @ + 1 ELSE @,
                                     !.dialed = "failed"]
        /\ UNCHANGED <<host, fs, infra, locals, genLog>>

\* Lines 43-44: time.Sleep, then continue.
WaitSleep ==
    /\ pc = "Sleep"
    /\ pc' = "DialTimeout"
    /\ UNCHANGED <<host, fs, infra, locals, last, genLog>>

\* Lines 46-49: conn.Close, break, return nil.
WaitClose ==
    /\ pc = "Close"
    /\ pc' = "returned"
    /\ last' = [last EXCEPT !.err = Nil]
    /\ UNCHANGED <<host, fs, infra, locals, genLog>>

NextWait ==
    \/ EndpointFlips
    \/ WaitDialTimeout
    \/ WaitSleep
    \/ WaitClose

\* The calling goroutine keeps running: each call of the loop returns (the
\* dial after at most its timeout, the sleep after its interval) and the
\* next statement is executed.  Nothing is assumed of the endpoint.
SpecWait ==
    /\ InitWait
    /\ [][NextWait]_vars
    /\ WF_vars(WaitDialTimeout)
    /\ WF_vars(WaitSleep)
    /\ WF_vars(WaitClose)

----------------------------------------------------------------------------
(* Properties *)

InSeq(x, seq) == \E i \in DOMAIN seq : seq[i] = x

\* C1: when the driver's Create reports an error, Host.Create returns that
\* error, made no call to SaveConfig and left the file system as it was;
\* SaveConfig is called only when the driver reported no error.
C1_CreateDriverErrorWritesNothing ==
    [][last'.op = "Create" =>
         /\ InSeq("Driver.Create", last'.errors) =>
               /\ last'.err = "Driver.Create"
               /\ ~InSeq("SaveConfig", last'.calls)
               /\ fs' = fs
         /\ InSeq("SaveConfig", last'.calls) => ~InSeq("Driver.Create", last'.errors)]_vars

\* A Create that failed in the driver, on a store directory it could have written.
C1_Witness ==
    /\ last.op = "Create"
    /\ last.err = "Driver.Create"
    /\ fs.kind = "dir"
    /\ fs.files["config.json"] = NoFile

\* C2: when the driver's Remove fails in Remove(false), Remove returns the
\* driver's error, does not run removeStorePath and leaves every file of the
\* store as it was.
C2_UnforcedRemoveKeepsStore ==
    [][(last'.op = "Remove" /\ ~last'.force /\ InSeq("Driver.Remove", last'.errors)) =>
         /\ last'.err = "Driver.Remove"
         /\ last'.calls = <<"Driver.Remove">>
         /\ fs' = fs]_vars

\* An unforced Remove that failed in the driver, with a saved host in the store.
C2_Witness ==
    /\ last.op = "Remove"
    /\ ~last.force
    /\ last.err = "Driver.Remove"
    /\ fs.kind = "dir"
    /\ fs.files["config.json"] # NoFile

\* C3 as stated: after Remove(true) there is no directory at the store path,
\* whatever the driver reported and whatever the store path was before.
C3_ForcedRemoveAlwaysAbsent ==
    (last.op = "Remove" /\ last.force) => fs.kind # "dir"

\* C3, amended: Remove(true) runs removeStorePath whatever the driver
\* reported; when it returns no error the store path is absent, and when
\* the store path is still there it returned the error of the local removal
\* (stat failed, not a directory, recursive delete failed).
C3_ForcedRemoveAbsentUnlessLocalError ==
    (last.op = "Remove" /\ last.force) =>
        /\ InSeq("Stat", last.calls)
        /\ last.err = Nil => fs.kind = "absent"
        /\ fs.kind # "absent" => last.err \in {"Stat", "NotADirectory", "RemoveAll"}

\* A forced Remove whose driver teardown failed and which deleted the store.
C3_Witness ==
    /\ last.op = "Remove"
    /\ last.force
    /\ InSeq("Driver.Remove", last.errors)
    /\ last.err = Nil
    /\ fs.kind = "absent"

\* C4: an operation returns no error although one of its calls reported one
\* only in Remove(true), and then the one error reported is the driver's; an
\* error of the local removal (stat, not a directory, recursive delete) is
\* the one Remove returns, and a store path that is not a directory is left
\* as it was.  Every other operation returns the (first) error reported.
C4_OnlyForcedRemoveSwallows ==
    [][/\ (last'.errors # <<>> /\ last'.err = Nil) =>
              /\ last'.op = "Remove"
              /\ last'.force
              /\ last'.errors = <<"Driver.Remove">>
       /\ last'.op = "Remove" =>
              \A e \in {"Stat", "NotADirectory", "RemoveAll"} :
                  InSeq(e, last'.errors) => last'.err = e
       /\ (last'.op = "Remove" /\ last'.err = "NotADirectory") =>
              (fs' = fs /\ fs.kind = "file")
       /\ (last'.op # "Remove" /\ last'.errors # <<>>) => last'.err = last'.errors[1]]_vars

\* A forced Remove that swallowed the driver's error and returned the error of
\* the recursive delete.
C4_Witness ==
    /\ last.op = "Remove"
    /\ last.force
    /\ last.errors = <<"Driver.Remove", "RemoveAll">>
    /\ last.err = "RemoveAll"

\* The calls of AuthCalls before position i.
Prefix(i) == SubSeq(AuthCalls, 1, i)

\* C5: ConfigureAuth makes its calls in the order of AuthCalls; the first
\* call that fails is the last one made and its error is the one returned;
\* the step that fails changes nothing on the machine, so what earlier steps
\* did stays: once StopDocker succeeded, the daemon is stopped until
\* StartDocker succeeds.
C5_ConfigureAuthFailFast ==
    [][last'.op = "ConfigureAuth" =>
         /\ last'.calls = Prefix(Len(last'.calls))
         /\ last'.errors # <<>> =>
               /\ pc' = "idle"
               /\ Len(last'.errors) = 1
               /\ last'.err = last'.errors[1]
               /\ last'.errors # last.errors => infra' = infra
         /\ (last'.errors = <<>> /\ pc' # "idle") => pc' = AuthCalls[Len(last'.calls) + 1]
         /\ (InSeq("StopDocker", last'.calls) /\ last'.err # "StopDocker"
               /\ ~(pc' = "idle" /\ last'.err = Nil)) => ~infra'.docker]_vars

\* A ConfigureAuth that failed at the upload of the server certificate: the
\* CA certificate and the server key are on the machine, the daemon is down.
C5_Witness ==
    /\ last.op = "ConfigureAuth"
    /\ pc = "idle"
    /\ last.err = "tee(server.pem)"
    /\ infra.remote["ca.pem"] # <<>>
    /\ infra.remote["server-key.pem"] # <<>>
    /\ infra.remote["server.pem"] = <<>>
    /\ ~infra.docker

\* A step that is one run of GenerateCertificates.
GenerateCertificatesRuns == Len(genLog') = Len(genLog) + 1

\* The first call of the run just made: GenerateCACert or CopyFile(CaCertPath).
CADecision == genLog'[Len(genLog')]

\* C6 as stated: with no CA certificate path and no private key path, a run
\* of GenerateCertificates that finds in the store the ca.pem and private.pem
\* (and the server and client certificates) of an earlier run does not
\* generate a self-signed CA again.
C6_CAGeneratedOnlyOnFirstRun ==
    [][(/\ GenerateCertificatesRuns
        /\ host.CaCertPath = NoPath
        /\ host.PrivateKeyPath = NoPath
        /\ fs.kind = "dir"
        /\ \A name \in StoreFiles \ {"config.json"} : fs.files[name] # NoFile) =>
           CADecision # "GenerateCACert"]_vars

C8_PartialSupplyGeneratesCA ==
    [][(/\ GenerateCertificatesRuns
        /\ (host.CaCertPath = NoPath) # (host.PrivateKeyPath = NoPath)) =>
           CADecision = "GenerateCACert"]_vars

\* C9: right after a SaveConfig that succeeded (Create's included), LoadHost
\* on the same store path returns a host with the DriverName, the
\* certificate path fields and the driver fields of the saved host, and a
\* non-nil driver of the kind DriverName names.
C9_SaveLoadRoundTrip ==
    (last.op \in {"Create", "SaveConfig"} /\ last.err = Nil) =>
        LET r == LoadHost(HostName, StorePath, fs, TRUE)
        IN  /\ r.err = Nil
            /\ Len(r.ret) = 1
            /\ \A k \in PersistedKeys : r.ret[1][k] = host[k]
            /\ r.ret[1].Driver # NilDriver
            /\ r.ret[1].Driver.kind = host.DriverName
            /\ r.ret[1].Driver.fields = host.Driver.fields

\* A host created with a supplied CA: its driver holds what Create recorded.
C9_Witness ==
    /\ last.op = "Create"
    /\ last.err = Nil
    /\ host.CaCertPath = SuppliedCaCert
    /\ \E f \in DOMAIN host.Driver.fields : host.Driver.fields[f] \in {"#7", "#1024"}
    /\ fs.files["config.json"] = MarshalHost(host)

\* A member of document doc that the second pass cannot store in a host
\* whose driver is of the given kind.
BadMember(doc, kind) ==
    \/ \E k \in DOMAIN doc.top \cap PersistedKeys : ~IsString(doc.top[k])
    \/ \E f \in DOMAIN doc.driver \cap FieldsOf(kind) : ~FieldTypeOk(f, doc.driver[f])

\* C10: LoadHost changes neither the disk nor the machine nor the host; it
\* returns a host exactly when it returns no error; store path absent gives
\* "does not exist", config.json absent a read error, a document that is not
\* JSON or has a member of the wrong type a decode error, an unregistered
\* driver name UnknownDriver; a host is returned only for a well-formed
\* document of a registered kind with no such member.
C10_LoadHostAllOrNothing ==
    [][last'.op = "LoadHost" =>
         LET cfg == fs.files["config.json"]
             readable == fs.kind = "dir" /\ cfg # NoFile
             wellformed == IF readable THEN cfg.wellformed ELSE FALSE
             named == IF wellformed /\ "DriverName" \in DOMAIN cfg.top
                      THEN cfg.top["DriverName"] ELSE ""
             registered == named \in RegisteredDrivers
         IN  /\ fs' = fs /\ infra' = infra /\ host' = host
             /\ (last'.ret = <<>>) <=> (last'.err # Nil)
             /\ fs.kind = "absent" => last'.err = "HostDoesNotExist"
             /\ (fs.kind # "absent" /\ ~readable) => last'.err = "ReadFile"
             /\ (readable /\ ~wellformed) => last'.err \in {"ReadFile", "json.Unmarshal"}
             /\ (wellformed /\ ~registered) => last'.err \in {"ReadFile", "UnknownDriver"}
             /\ (registered /\ BadMember(cfg, named)) =>
                    last'.err \in {"ReadFile", "json.Unmarshal"}
             /\ last'.ret # <<>> =>
                    /\ registered
                    /\ ~BadMember(cfg, named)
                    /\ last'.ret[1].Driver.kind = named]_vars

\* A LoadHost refused for an unregistered driver kind.
C10_Witness ==
    /\ last.op = "LoadHost"
    /\ last.err = "UnknownDriver"
    /\ last.ret = <<>>
    /\ fs.files["config.json"] # NoFile

\* The driver members of document doc are those of the kind it declares:
\* none of another kind, none of its own kind missing.
ShapeAgrees(doc) ==
    /\ doc.wellformed
    /\ "DriverName" \in DOMAIN doc.top
    /\ IsString(doc.top["DriverName"])
    /\ DOMAIN doc.driver = FieldsOf(doc.top["DriverName"])

\* C11 as stated: a LoadHost of a config.json whose driver members do not
\* match its declared DriverName (members of another kind, or members of the
\* declared kind missing) returns no host.
C11_MismatchedShapeFailsToLoad ==
    (/\ last.op = "LoadHost"
     /\ fs.kind = "dir"
     /\ fs.files["config.json"] # NoFile
     /\ ~ShapeAgrees(fs.files["config.json"])) =>
        /\ last.err # Nil
        /\ last.ret = <<>>

\* C12 as stated: after a ConfigureAuth that returned no error the host's
\* ServerCertPath, ServerKeyPath and ClientCertPath name the files written
\* under the store path, and a LoadHost of the store sees the same paths.
C12_BootstrapPopulatesCredentialPaths ==
    (last.op = "ConfigureAuth" /\ pc = "idle" /\ last.err = Nil) =>
        /\ host.ServerCertPath = Join(host.storePath, "server.pem")
        /\ host.ServerKeyPath = Join(host.storePath, "server-key.pem")
        /\ host.ClientCertPath = Join(host.storePath, "client.pem")
        /\ LET r == LoadHost(HostName, StorePath, fs, TRUE)
           IN  /\ r.err = Nil
               /\ r.ret[1].ServerCertPath = host.ServerCertPath
               /\ r.ret[1].ServerKeyPath = host.ServerKeyPath
               /\ r.ret[1].ClientCertPath = host.ClientCertPath

\* C13: for two hosts with different store paths, a step of one host's
\* operation (Create, SaveConfig, GenerateCertificates, Remove) leaves the
\* other host's store, and the files outside both stores, as they were; and
\* after every step each host's store is what it is in the run of that
\* host's operations alone.
C13_HostIsolation ==
    [][/\ fs'.ext = fs.ext
       /\ \A n \in Names :
            /\ last'.name # n =>
                  fs'.stores[host[n].storePath] = fs.stores[host[n].storePath]
            /\ fs'.stores[host'[n].storePath] = locals'[n]]_vars

\* Both hosts created and given certificates, node1 then removed: node2's
\* store still holds its configuration and the copy of its CA.
C13_Witness ==
    /\ last = [op |-> "Remove", name |-> "node1"]
    /\ fs.stores[StorePathOf("node1")].kind = "absent"
    /\ fs.stores[StorePathOf("node2")].files["config.json"] = MarshalHost(host["node2"])
    /\ fs.stores[StorePathOf("node2")].files["ca.pem"] = CopyOf(SuppliedCaCert)
    /\ fs.stores[StorePathOf("node2")].files["client.pem"] # NoFile
    /\ genLog["node1"] # <<>>

DriverOps == {"Start", "Stop", "Upgrade"}

\* C14: a step of Start, Stop or Upgrade makes exactly one call, the driver
\* operation of the same name, and returns what that call reported (its
\* error, or no error); it leaves the host's fields and the file system
\* (config.json and the store directory) as they were; and each of the three
\* can be called in every state the host is in between operations.
C14_PureDelegation ==
    [][/\ last'.op \in DriverOps =>
            /\ last'.calls = <<"Driver." \o last'.op>>
            /\ last'.errors \in {<<>>, <<"Driver." \o last'.op>>}
            /\ last'.err = (IF last'.errors = <<>> THEN Nil ELSE last'.errors[1])
            /\ host' = host
            /\ fs' = fs
       /\ pc = "idle" => (ENABLED Start /\ ENABLED Stop /\ ENABLED Upgrade)]_vars

\* A Stop that failed on a created, running host: the error is returned, the
\* machine still runs, config.json is still the saved host.
C14_Witness ==
    /\ last.op = "Stop"
    /\ last.err = "Driver.Stop"
    /\ infra.machine = "running"
    /\ fs.kind = "dir"
    /\ fs.files["config.json"] = MarshalHost(host)

\* Letters, digits and the underscore, by code point.
IsWordChar(c) ==
    \/ (c >= 65 /\ c <= 90)
    \/ (c >= 97 /\ c <= 122)
    \/ (c >= 48 /\ c <= 57)
    \/ c = 95

\* C15: ValidateHostName returns no error exactly for the non-empty names
\* made of letters, digits and underscores only, and fails with InvalidName
\* for every other name: the empty one and every one containing '-', ' ',
\* '.', a newline or a non-ASCII character.  The name it returns is the name
\* it was given.  Every name gets an answer, and nothing else changes.
C15_ValidateHostName ==
    /\ last.op = "input" => ENABLED ValidateHostNameOp
    /\ last.op = "ValidateHostName" =>
         /\ last.err \in {Nil, "InvalidName"}
         /\ (last.err = Nil) <=>
               (last.name # <<>> /\ \A i \in DOMAIN last.name : IsWordChar(last.name[i]))
         /\ (\E i \in DOMAIN last.name : last.name[i] \in {45, 32, 46, 10, 233}) =>
               last.err = "InvalidName"
         /\ last.ret = last.name
         /\ <<host, fs, infra, locals, genLog>> = <<Unused, Unused, Unused, Unused, Unused>>

\* "a_9" was accepted and came back as it was.
C15_Witness ==
    /\ last.op = "ValidateHostName"
    /\ last.name = <<97, 95, 57>>
    /\ last.ret = <<97, 95, 57>>
    /\ last.err = Nil

\* C16: waitForDocker returns only with no error, only after an attempt that
\* succeeded, and right after the first such attempt (no attempt follows
\* it); an attempt that failed is followed by the sleep and the next
\* attempt, however many have failed; so the call returns if the endpoint
\* is from some time on always reachable, and does not return while every
\* attempt fails.
C16_WaitForDocker ==
    /\ [](pc = "returned" =>
            /\ last.err = Nil
            /\ last.succeeded = 1
            /\ last.dialed = "ok")
    /\ [](last.succeeded = 0 => pc # "returned" /\ last.err = "not returned")
    /\ [][/\ last'.succeeded <= 1
          /\ (last.dialed = "ok" /\ last' # last) => pc' = "returned"
          /\ (last'.dialed = "failed" /\ last' # last) => pc' = "Sleep"
          /\ pc = "Sleep" => (pc' = "Sleep" \/ pc' = "DialTimeout")]_vars
    /\ [](pc # "returned" =>
            (ENABLED WaitDialTimeout \/ ENABLED WaitSleep \/ ENABLED WaitClose))
    /\ (<>[]infra.listening => <>(pc = "returned"))

\* The call returned after as many failed attempts as are counted.
C16_Witness ==
    /\ pc = "returned"
    /\ last.failed = MaxAttempts
    /\ last.succeeded = 1
    /\ last.err = Nil

\* The families the code gives the profile block, and others.
ProfileFamilies == {"virtualbox", "vmwarefusion", "vmwarevsphere"}
OtherFamilies == {"digitalocean", "amazonec2", "azure", "genericcloud", "none", ""}

\* C17: for virtualbox, vmwarefusion and vmwarevsphere the daemon
\* configuration contains DOCKER_TLS=auto and goes to the file profile of the
\* docker configuration directory; for every other family tag it contains
\* --tlsverify and no DOCKER_TLS=auto and goes to /etc/default/docker.  And
\* a ConfigureAuth whose upload of the daemon configuration succeeded has
\* appended that text to that file of the machine, for the tag of the
\* host's driver, and has written nothing to the other file.
C17_DaemonConfigByFamily ==
    /\ \A d \in ProfileFamilies :
          /\ InSeq("DOCKER_TLS=auto", DaemonCfg(d).text)
          /\ DaemonOptsCfg(d) = "profile"
    /\ \A d \in OtherFamilies :
          /\ InSeq("--tlsverify", DaemonCfg(d).text)
          /\ ~InSeq("DOCKER_TLS=auto", DaemonCfg(d).text)
          /\ DaemonOptsCfg(d) = "/etc/default/docker"
    /\ (/\ last.op = "ConfigureAuth"
        /\ InSeq("tee(daemon config)", last.calls)
        /\ last.err # "tee(daemon config)") =>
          LET local == host.Driver.kind \in ProfileFamilies
              target == IF local THEN "profile" ELSE "/etc/default/docker"
              other == IF local THEN "/etc/default/docker" ELSE "profile"
              written == infra.remote[target]
          IN  /\ written # <<>>
              /\ InSeq("DOCKER_TLS=auto", written[Len(written)].text) <=> local
              /\ InSeq("--tlsverify", written[Len(written)].text) <=> ~local
              /\ infra.remote[other] = <<>>

\* A digitalocean host after a ConfigureAuth that succeeded: /etc/default/docker
\* holds the --tlsverify options, there is no profile.
C17_Witness ==
    /\ last.op = "ConfigureAuth"
    /\ pc = "idle"
    /\ last.err = Nil
    /\ host.Driver.kind = "digitalocean"
    /\ infra.remote["/etc/default/docker"] # <<>>
    /\ InSeq("--tlsverify", infra.remote["/etc/default/docker"][1].text)
    /\ infra.remote["profile"] = <<>>

\* Where call stands among the calls made so far (0: not made), and how often.
Pos(call, calls) ==
    IF InSeq(call, calls) THEN CHOOSE i \in DOMAIN calls : calls[i] = call ELSE 0

Times(call, calls) == Cardinality({i \in DOMAIN calls : calls[i] = call})

\* Call a was made and succeeded before call b was made.
Before(a, b, op) ==
    /\ InSeq(a, op.calls)
    /\ ~InSeq(a, op.errors)
    /\ Pos(a, op.calls) < Pos(b, op.calls)

\* The commands ConfigureAuth runs on the machine, in the order claimed.
RemoteWrites ==
    <<"mkdir", "tee(ca.pem)", "tee(server-key.pem)", "tee(server.pem)",
      "tee(daemon config)">>

\* C18: in every run of ConfigureAuth, StopDocker is called only after GetIP
\* and GenerateCertificates succeeded and before every remote command; the
\* remote commands are mkdir, the upload of the CA certificate, of the server
\* key, of the server certificate and of the daemon configuration, each made
\* only after the one before it succeeded; StartDocker is called at most once
\* and only after all of them succeeded; ConfigureAuth returns no error only
\* if StartDocker was called and succeeded.  On the machine, accordingly, a
\* file was never appended to more often than the one uploaded before it.
C18_ConfigureAuthStepOrder ==
    last.op = "ConfigureAuth" =>
        /\ InSeq("StopDocker", last.calls) =>
              /\ Before("GetIP", "StopDocker", last)
              /\ Before("GenerateCertificates", "StopDocker", last)
        /\ \A i \in DOMAIN RemoteWrites :
              InSeq(RemoteWrites[i], last.calls) =>
                 /\ Before("StopDocker", RemoteWrites[i], last)
                 /\ i > 1 => Before(RemoteWrites[i - 1], RemoteWrites[i], last)
        /\ Times("StartDocker", last.calls) <= 1
        /\ InSeq("StartDocker", last.calls) =>
              \A i \in DOMAIN RemoteWrites : Before(RemoteWrites[i], "StartDocker", last)
        /\ (pc = "idle" /\ last.err = Nil) =>
              /\ InSeq("StartDocker", last.calls)
              /\ ~InSeq("StartDocker", last.errors)
              /\ infra.docker
        /\ Len(infra.remote["ca.pem"]) >= Len(infra.remote["server-key.pem"])
        /\ Len(infra.remote["server-key.pem"]) >= Len(infra.remote["server.pem"])
        /\ Len(infra.remote["server.pem"]) >=
              Len(infra.remote["profile"]) + Len(infra.remote["/etc/default/docker"])
        /\ infra.remote["ca.pem"] # <<>> => infra.configDir

\* A run stopped by the failure of the upload of the daemon configuration:
\* the three credentials are on the machine, StartDocker was not called.
C18_Witness ==
    /\ last.op = "ConfigureAuth"
    /\ pc = "idle"
    /\ last.err = "tee(daemon config)"
    /\ ~InSeq("StartDocker", last.calls)
    /\ infra.remote["server.pem"] # <<>>
    /\ infra.remote["profile"] = <<>>
    /\ infra.remote["/etc/default/docker"] = <<>>
    /\ ~infra.docker

\* C19 as stated: after every ConfigureAuth that returned no error (the
\* first run, a second run on the same host, a run after one that was
\* aborted) the machine's ca.pem, server-key.pem and server.pem each hold
\* exactly the content of the file of that name in the local store, and the
\* daemon configuration file holds the composed configuration once.
C19_RerunLeavesExactCopies ==
    (last.op = "ConfigureAuth" /\ pc = "idle" /\ last.err = Nil) =>
        /\ \A name \in {"ca.pem", "server-key.pem", "server.pem"} :
              infra.remote[name] = <<fs.files[name]>>
        /\ infra.remote[DaemonOptsCfg(host.Driver.kind)] = <<DaemonCfg(host.Driver.kind)>>

\* C20: a Remove that returns no error leaves no storage directory (and so
\* no config.json and no certificate file); while there is none, every
\* LoadHost fails with "does not exist" and returns no host; and the
\* directory is there again only after a step of Create or SaveConfig.
C20_RemoveLeadsToAbsent ==
    [][/\ (last'.op = "Remove" /\ last'.err = Nil) =>
             /\ fs'.kind = "absent"
             /\ \A name \in StoreFiles : fs'.files[name] = NoFile
       /\ (fs.kind = "absent" /\ last'.op = "LoadHost") =>
             /\ last'.err = "HostDoesNotExist"
             /\ last'.ret = <<>>
       /\ (fs.kind = "absent" /\ fs'.kind # "absent") =>
             last'.op \in {"Create", "SaveConfig"}]_vars

\* An unforced Remove of a created host returned no error: machine and store
\* are gone, and a LoadHost now is refused.
C20_Witness ==
    /\ last.op = "Remove"
    /\ ~last.force
    /\ last.err = Nil
    /\ fs.kind = "absent"
    /\ infra.machine = "none"
    /\ LoadHost(HostName, StorePath, fs, TRUE).err = "HostDoesNotExist"
    /\ \E f \in DOMAIN host.Driver.fields : host.Driver.fields[f] \in {"#7", "#1024"}

====
